---- MODULE Spec2Model ----
(***************************************************************************)
(* Transaction protocol layer of the Replicache client                     *)
(* (src/src/transactions.ts): ReadTransactionImpl, WriteTransactionImpl    *)
(* and IndexTransactionImpl wrap an asynchronous invocation channel.       *)
(*                                                                         *)
(* An async method runs synchronously up to its first await: that part is  *)
(* one action (Get, Put, Close, ...).  The continuation after the await is *)
(* a second action (GetResume, PutResume, CloseResume, ...): it takes the  *)
(* outcome the channel settled the request with, any of Responses(rpc),    *)
(* and settles the promise the method returned.  Settling a request        *)
(* changes nothing any other call reads, so it is not a step of its own.   *)
(***************************************************************************)
EXTENDS Integers, Sequences, FiniteSets, TLC

VARIABLES
    kind,           \* kind[t]: the class of transaction object t
    transactionId,  \* transactionId[t]: the field _transactionId
    closed,         \* closed[t]: the field _closed
    pending,        \* the calls suspended at their await, oldest first,
                    \* each with the request it handed to _invoke
    last,           \* the call whose promise settled most recently
    endReqs,        \* endReqs[t]: the CloseTransaction / CommitTransaction
                    \* tags the channel has received from t
    engine          \* the storage engine behind the channel: the keys it
                    \* stores and its index definitions

vars == <<kind, transactionId, closed, pending, last, endReqs, engine>>

\* ----------------------------------------------------------------------
\* Bounds
\* ----------------------------------------------------------------------
\* calls of all transactions suspended at the same time
MaxInFlight == 2

\* Scan requests one iteration of a scan view may need (pagination)
MaxPages == 2

\* ----------------------------------------------------------------------
\* Data
\* ----------------------------------------------------------------------
Txs == DOMAIN kind

Kinds == {"Read", "Write", "Index"}

\* private _transactionId = -1
NoId == -1

\* the transaction ids the engine may answer an open request with
EngineIds == {1, 2}

\* encoded values the engine may answer a Get with; "{" is malformed JSON
EncodedValues == {"\"a\"", "{"}

CommitOutcomes == {"applied", "conflict"}

Failures == {"ChannelFailure"}

\* the arguments a caller may pass to open()
OpenArgs == {"a1", "a2"}

\* an optional property that is left out
Undefined == "undefined"

\* the index definitions a caller may pass to createIndex()
CreateIndexDefinitions ==
    [name : {"n"}, keyPrefix : {Undefined, "", "p"},
     jsonPointer : {"/age", "/name"}]

\* createIndex({name: "n", jsonPointer: "/age"})
AgeIndex == [name |-> "n", keyPrefix |-> Undefined, jsonPointer |-> "/age"]

\* the engine with nothing stored and no index
NoData == [keys |-> {}, indexes |-> {}]

ReadOps == {"get", "has", "isEmpty"}

WriteOps == {"put", "del"}

IndexOps == {"createIndex", "dropIndex"}

\* the operations that start with throwIfClosed(this)
GuardedOps == ReadOps \cup WriteOps \cup IndexOps

\* the calls that iterate a view of a ScanResult
IterOps == {"scanAll", "iterate"}

EndRpcs == {"CloseTransaction", "CommitTransaction"}

\* an index transaction that keeps the tag of its base class
openTransactionNameInherited(k) == "OpenTransaction"

\* protected readonly _openTransactionName
openTransactionName(k) ==
    IF k = "Index" THEN "OpenIndexTransaction" ELSE "OpenTransaction"

OpenRpcs == {"OpenTransaction", "OpenIndexTransaction"}

\* the RPC tag each guarded operation passes to _invoke
RpcOf(op) ==
    CASE op = "get" -> "Get"
      [] op = "has" -> "Has"
      [] op = "isEmpty" -> "Scan"
      [] op = "put" -> "Put"
      [] op = "del" -> "Del"
      [] op = "createIndex" -> "CreateIndex"
      [] op = "dropIndex" -> "DropIndex"
      [] op = "close" -> "CloseTransaction"
      [] op = "commit" -> "CommitTransaction"

\* JSON.parse on the encoded values of the model
JSONParse(s) ==
    CASE s = "\"a\"" -> [ok |-> TRUE, val |-> "a"]
      [] OTHER -> [ok |-> FALSE, val |-> "DecodeFailure"]

\* throwIfClosed(tx): throws TransactionClosedError when tx.closed
throwIfClosed(t) == closed[t]

\* close() or commit() has been invoked on t
Ended(t) == endReqs[t] # {}

\* ----------------------------------------------------------------------
\* The invocation channel
\* ----------------------------------------------------------------------
\* the results the channel may resolve a request of the given tag with
OkResponses(rpc) ==
    CASE rpc \in OpenRpcs ->
           {[status |-> "ok", transactionId |-> i] : i \in EngineIds}
      [] rpc = "Get" ->
           {[status |-> "ok", has |-> FALSE, value |-> ""]} \cup
           {[status |-> "ok", has |-> TRUE, value |-> v] : v \in EncodedValues}
      [] rpc = "Has" -> {[status |-> "ok", has |-> b] : b \in BOOLEAN}
      [] rpc = "Scan" -> {[status |-> "ok", delivered |-> n] : n \in 0..1}
      [] rpc = "Del" -> {[status |-> "ok", ok |-> b] : b \in BOOLEAN}
      [] rpc = "CommitTransaction" ->
           {[status |-> "ok", outcome |-> o] : o \in CommitOutcomes}
      [] OTHER -> {[status |-> "ok"]}

FailResponses == {[status |-> "fail", error |-> e] : e \in Failures}

\* every outcome of this._invoke(rpc, ...)
Responses(rpc) == OkResponses(rpc) \cup FailResponses

\* ----------------------------------------------------------------------
\* The storage engine behind the channel
\* ----------------------------------------------------------------------
\* the definition a CreateIndex request asks for
DefOf(req) ==
    [name |-> req.name, keyPrefix |-> req.keyPrefix,
     jsonPointer |-> req.jsonPointer]

\* the index of that name exists with another definition
Conflicts(req) ==
    \E d \in engine.indexes : d.name = req.name /\ d # DefOf(req)

Min(a, b) == IF a < b THEN a ELSE b

\* the engine's answer to req
Served(req) ==
    CASE req.rpc = "Scan" ->
           [status |-> "ok",
            delivered |-> IF req.opts.limit = 0
                          THEN Cardinality(engine.keys)
                          ELSE Min(req.opts.limit, Cardinality(engine.keys))]
      [] req.rpc = "Del" -> [status |-> "ok", ok |-> "k" \in engine.keys]
      [] req.rpc = "CreateIndex" ->
           IF Conflicts(req)
           THEN [status |-> "fail", error |-> "DefinitionConflict"]
           ELSE [status |-> "ok"]
      [] OTHER -> [status |-> "ok"]

\* the engine after it answered req
Applied(req) ==
    CASE req.rpc = "Put" -> [engine EXCEPT !.keys = @ \cup {"k"}]
      [] req.rpc = "Del" -> [engine EXCEPT !.keys = @ \ {"k"}]
      [] req.rpc = "CreateIndex" ->
           IF Conflicts(req)
           THEN engine
           ELSE [engine EXCEPT !.indexes = @ \cup {DefOf(req)}]
      [] req.rpc = "DropIndex" ->
           [engine EXCEPT !.indexes = {d \in @ : d.name # req.name}]
      [] OTHER -> engine

\* ----------------------------------------------------------------------
\* Records
\* ----------------------------------------------------------------------
Pending == [status |-> "pending"]

NoReq == [rpc |-> "", transactionId |-> NoId]

\* a call without arguments
NoArgs == [none |-> TRUE]

\* the key the calls of the model read and write
KeyArgs == [key |-> "k"]

NoCall ==
    [tx |-> "", op |-> "", args |-> NoArgs, state |-> "", result |-> "",
     req |-> NoReq, sent |-> 0, resp |-> Pending, afterEnd |-> FALSE,
     closeDuring |-> FALSE]

\* a payload that carries the initial id instead of the current one
ReqInitialId(t, op) == [rpc |-> RpcOf(op), transactionId |-> NoId]

\* the payload {transactionId: this._transactionId, ...} of the request of op
Req(t, op) == [rpc |-> RpcOf(op), transactionId |-> transactionId[t]]

\* a call op(args) on t that handed req to this._invoke and is now suspended
\* at its await
Awaiting(t, op, args, req) ==
    [tx |-> t, op |-> op, args |-> args, state |-> "awaiting", result |-> "",
     req |-> req, sent |-> 1, resp |-> Pending, afterEnd |-> Ended(t),
     closeDuring |-> FALSE]

\* a call op(args) on t that settled without ever reaching an await
Threw(t, op, args, err) ==
    [tx |-> t, op |-> op, args |-> args, state |-> "threw", result |-> err,
     req |-> NoReq, sent |-> 0, resp |-> Pending, afterEnd |-> Ended(t),
     closeDuring |-> FALSE]

Remove(seq, i) ==
    [j \in 1..(Len(seq) - 1) |-> IF j < i THEN seq[j] ELSE seq[j + 1]]

\* suspended call i is a call of op
Suspended(i, op) ==
    /\ i \in 1..Len(pending)
    /\ pending[i].op = op

Return(i, resp, v) ==
    [pending[i] EXCEPT !.state = "returned", !.result = v, !.resp = resp]

Throw(i, resp, e) ==
    [pending[i] EXCEPT !.state = "threw", !.result = e, !.resp = resp]

\* await of a settled promise: the value, or the rejection rethrown
AwaitThen(i, resp, v) ==
    IF resp.status = "fail"
    THEN Throw(i, resp, resp.error)
    ELSE Return(i, resp, v)

\* the promise of call i settles as record done
Settle(i, done) ==
    /\ last' = done
    /\ pending' = Remove(pending, i)

\* ----------------------------------------------------------------------
\* Initial state: one transaction object of any class, just constructed
\* ----------------------------------------------------------------------
Init ==
    /\ kind \in [{"t1"} -> Kinds]
    /\ transactionId = [t \in DOMAIN kind |-> NoId]
    /\ closed = [t \in DOMAIN kind |-> FALSE]
    /\ pending = <<>>
    /\ last = NoCall
    /\ endReqs = [t \in DOMAIN kind |-> {}]
    /\ engine = NoData

CanCall == Len(pending) < MaxInFlight

\* a guard that looks at one closed flag shared by all transactions
GuardedShared(t, op, args, req) ==
    /\ IF \E u \in Txs : throwIfClosed(u)
       THEN /\ last' = Threw(t, op, args, "TransactionClosed")
            /\ UNCHANGED pending
       ELSE /\ CanCall
            /\ pending' = Append(pending, Awaiting(t, op, args, req))
            /\ UNCHANGED last
    /\ UNCHANGED <<kind, transactionId, closed, endReqs, engine>>

\* a guarded operation up to its await: throwIfClosed, then _invoke
Guarded(t, op, args, req) ==
    /\ IF throwIfClosed(t)
       THEN /\ last' = Threw(t, op, args, "TransactionClosed")
            /\ UNCHANGED pending
       ELSE /\ CanCall
            /\ pending' = Append(pending, Awaiting(t, op, args, req))
            /\ UNCHANGED last
    /\ UNCHANGED <<kind, transactionId, closed, endReqs, engine>>

\* ----------------------------------------------------------------------
\* ReadTransactionImpl
\* ----------------------------------------------------------------------
\* get() that sends its request without looking at closed
GetUnguarded(t) ==
    /\ CanCall
    /\ pending' = Append(pending,
                     Awaiting(t, "get", KeyArgs, Req(t, "get")))
    /\ UNCHANGED <<kind, transactionId, closed, last, endReqs, engine>>

Get(t) == Guarded(t, "get", KeyArgs, Req(t, "get"))

\* get() that looks at closed again after its await
GetResumeRechecked(i) ==
    /\ Suspended(i, "get")
    /\ \E resp \in Responses(pending[i].req.rpc) :
         /\ Settle(i,
              IF closed[pending[i].tx]
              THEN Throw(i, resp, "TransactionClosed")
              ELSE IF resp.status = "fail" THEN Throw(i, resp, resp.error)
              ELSE IF ~resp.has THEN Return(i, resp, "undefined")
              ELSE IF JSONParse(resp.value).ok
                   THEN Return(i, resp, JSONParse(resp.value).val)
                   ELSE Throw(i, resp, JSONParse(resp.value).val))
         /\ UNCHANGED <<kind, transactionId, closed, endReqs, engine>>

GetResume(i) ==
    /\ Suspended(i, "get")
    /\ \E resp \in Responses(pending[i].req.rpc) :
         /\ Settle(i,
              IF resp.status = "fail" THEN Throw(i, resp, resp.error)
              ELSE IF ~resp.has THEN Return(i, resp, "undefined")
              ELSE IF JSONParse(resp.value).ok
                   THEN Return(i, resp, JSONParse(resp.value).val)
                   ELSE Throw(i, resp, JSONParse(resp.value).val))
         /\ UNCHANGED <<kind, transactionId, closed, endReqs, engine>>

Has(t) == Guarded(t, "has", KeyArgs, Req(t, "has"))

\* has() that sends its request a second time when the first one failed
HasResumeRetries(i) ==
    /\ Suspended(i, "has")
    /\ \E resp \in Responses(pending[i].req.rpc) :
         /\ IF resp.status = "fail" /\ pending[i].sent < 2
            THEN /\ pending' = [pending EXCEPT ![i].sent = @ + 1]
                 /\ UNCHANGED last
            ELSE Settle(i, AwaitThen(i, resp,
                    IF resp.status = "ok" /\ resp.has THEN "true" ELSE "false"))
         /\ UNCHANGED <<kind, transactionId, closed, endReqs, engine>>

HasResume(i) ==
    /\ Suspended(i, "has")
    /\ \E resp \in Responses(pending[i].req.rpc) :
         /\ Settle(i, AwaitThen(i, resp,
              IF resp.status = "ok" /\ resp.has THEN "true" ELSE "false"))
         /\ UNCHANGED <<kind, transactionId, closed, endReqs, engine>>

\* opts: {limit: 1}, and no indexName: the primary key space
IsEmptyOpts == [limit |-> 1, indexName |-> ""]

IsEmpty(t) ==
    Guarded(t, "isEmpty", NoArgs,
            [rpc |-> "Scan", transactionId |-> transactionId[t],
             opts |-> IsEmptyOpts])

\* isEmpty() that starts from empty = false
IsEmptyDoneNeverEmpty(i, resp) == Settle(i, AwaitThen(i, resp, "false"))

\* the rest of isEmpty(): empty is true unless the receiver was called
IsEmptyDone(i, resp) ==
    Settle(i, AwaitThen(i, resp,
        IF resp.status = "ok" /\ resp.delivered = 0 THEN "true" ELSE "false"))

IsEmptyResume(i) ==
    /\ Suspended(i, "isEmpty")
    /\ \E resp \in Responses(pending[i].req.rpc) :
         /\ IsEmptyDone(i, resp)
         /\ UNCHANGED <<kind, transactionId, closed, endReqs, engine>>

\* isEmpty() answered by the engine
IsEmptyServed(i) ==
    /\ Suspended(i, "isEmpty")
    /\ IsEmptyDone(i, Served(pending[i].req))
    /\ engine' = Applied(pending[i].req)
    /\ UNCHANGED <<kind, transactionId, closed, endReqs>>

\* the options a caller passes to scan() and scanAll(): everything
ScanOptions == [limit |-> 0, indexName |-> ""]

ScanArgs == [options |-> ScanOptions]

\* scan() that fetches the first page right away
ScanEager(t) ==
    /\ CanCall
    /\ pending' = Append(pending,
                     Awaiting(t, "scan", ScanArgs,
                              [rpc |-> "Scan",
                               transactionId |-> transactionId[t],
                               opts |-> ScanOptions]))
    /\ UNCHANGED <<kind, transactionId, closed, last, endReqs, engine>>

\* scan(): new ScanResult(options, this._invoke, () => this, false)
Scan(t) ==
    /\ last' = [Threw(t, "scan", ScanArgs, "") EXCEPT
                  !.state = "returned", !.result = "ScanResult"]
    /\ UNCHANGED <<kind, transactionId, closed, pending, endReqs, engine>>

\* a view of a ScanResult bound to t is advanced for the first time: it
\* checks that t is not closed, then asks the channel for entries
Advance(t, op) ==
    Guarded(t, op, ScanArgs,
            [rpc |-> "Scan", transactionId |-> transactionId[t],
             opts |-> ScanOptions])

\* a view is advanced after the channel answered resp to call i: it fails
\* when its transaction is closed, otherwise it rethrows a failure, asks
\* for the next page if there is one, or is done
AdvanceAgain(i, resp, more) ==
    IF throwIfClosed(pending[i].tx)
    THEN Settle(i, Throw(i, resp, "TransactionClosed"))
    ELSE IF resp.status = "fail"
    THEN Settle(i, Throw(i, resp, resp.error))
    ELSE IF more /\ pending[i].sent < MaxPages
    THEN /\ pending' = [pending EXCEPT ![i].sent = @ + 1]
         /\ UNCHANGED last
    ELSE Settle(i, Return(i, resp, "entries"))

\* scanAll(): const it = this.scan(options).entries(); for await (...)
ScanAll(t) == Advance(t, "scanAll")

\* scanAll() that returns what it has when the iteration throws
ScanAllResumeSwallows(i) ==
    /\ Suspended(i, "scanAll")
    /\ \E resp \in Responses("Scan"), more \in BOOLEAN :
         /\ IF throwIfClosed(pending[i].tx) \/ resp.status = "fail"
            THEN Settle(i, Return(i, resp, "entries"))
            ELSE AdvanceAgain(i, resp, more)
         /\ UNCHANGED <<kind, transactionId, closed, endReqs, engine>>

\* the for await loop of scanAll(): whatever the view throws is rethrown
ScanAllResume(i) ==
    /\ Suspended(i, "scanAll")
    /\ \E resp \in Responses("Scan"), more \in BOOLEAN :
         /\ AdvanceAgain(i, resp, more)
         /\ UNCHANGED <<kind, transactionId, closed, endReqs, engine>>

\* a caller iterates a view of tx.scan(options) itself
Iterate(t) == Advance(t, "iterate")

IterateResume(i) ==
    /\ Suspended(i, "iterate")
    /\ \E resp \in Responses("Scan"), more \in BOOLEAN :
         /\ AdvanceAgain(i, resp, more)
         /\ UNCHANGED <<kind, transactionId, closed, endReqs, engine>>

Open(t, args) ==
    /\ CanCall
    /\ pending' = Append(pending,
                     Awaiting(t, "open", [open |-> args],
                              [rpc |-> openTransactionName(kind[t]),
                               args |-> args]))
    /\ UNCHANGED <<kind, transactionId, closed, last, endReqs, engine>>

\* open() that marks the transaction as open again
OpenResumeReopens(i) ==
    /\ Suspended(i, "open")
    /\ \E resp \in Responses(pending[i].req.rpc) :
         /\ Settle(i, AwaitThen(i, resp, "undefined"))
         /\ transactionId' =
              IF resp.status = "ok"
              THEN [transactionId EXCEPT
                      ![pending[i].tx] = resp.transactionId]
              ELSE transactionId
         /\ closed' =
              IF resp.status = "ok"
              THEN [closed EXCEPT ![pending[i].tx] = FALSE]
              ELSE closed
         /\ UNCHANGED <<kind, endReqs, engine>>

OpenResume(i) ==
    /\ Suspended(i, "open")
    /\ \E resp \in Responses(pending[i].req.rpc) :
         /\ Settle(i, AwaitThen(i, resp, "undefined"))
         /\ transactionId' =
              IF resp.status = "ok"
              THEN [transactionId EXCEPT
                      ![pending[i].tx] = resp.transactionId]
              ELSE transactionId
         /\ UNCHANGED <<kind, closed, endReqs, engine>>

\* close() is invoked on t: the calls of t now suspended see it happen
MarkClose(t) ==
    [j \in 1..Len(pending) |->
        IF pending[j].tx = t
        THEN [pending[j] EXCEPT !.closeDuring = TRUE]
        ELSE pending[j]]

\* close() that sends its request with _closed not yet set
CloseSendsFirst(t) ==
    /\ CanCall
    /\ pending' = Append(MarkClose(t),
                     Awaiting(t, "close", NoArgs, Req(t, "close")))
    /\ endReqs' = [endReqs EXCEPT ![t] = @ \cup {"CloseTransaction"}]
    /\ UNCHANGED <<kind, transactionId, closed, last, engine>>

Close(t) ==
    /\ CanCall
    /\ closed' = [closed EXCEPT ![t] = TRUE]
    /\ pending' = Append(MarkClose(t),
                     Awaiting(t, "close", NoArgs, Req(t, "close")))
    /\ endReqs' = [endReqs EXCEPT ![t] = @ \cup {"CloseTransaction"}]
    /\ UNCHANGED <<kind, transactionId, last, engine>>

\* close() without its try/catch
CloseResumeRethrows(i) ==
    /\ Suspended(i, "close")
    /\ \E resp \in Responses(pending[i].req.rpc) :
         /\ Settle(i, AwaitThen(i, resp, "undefined"))
         /\ UNCHANGED <<kind, transactionId, closed, endReqs, engine>>

CloseResume(i) ==
    /\ Suspended(i, "close")
    /\ \E resp \in Responses(pending[i].req.rpc) :
         /\ Settle(i, Return(i, resp, "undefined"))
         /\ UNCHANGED <<kind, transactionId, closed, endReqs, engine>>

\* ----------------------------------------------------------------------
\* WriteTransactionImpl
\* ----------------------------------------------------------------------
\* put() that returns without awaiting its request
PutDetached(t) ==
    /\ kind[t] = "Write"
    /\ IF throwIfClosed(t)
       THEN /\ last' = Threw(t, "put", KeyArgs, "TransactionClosed")
            /\ UNCHANGED pending
       ELSE /\ CanCall
            /\ pending' = Append(pending,
                  [Awaiting(t, "put", KeyArgs, Req(t, "put"))
                     EXCEPT !.state = "detached"])
            /\ last' = [Awaiting(t, "put", KeyArgs, Req(t, "put"))
                          EXCEPT !.state = "returned", !.result = "undefined"]
    /\ UNCHANGED <<kind, transactionId, closed, endReqs, engine>>

Put(t) ==
    /\ kind[t] = "Write"
    /\ Guarded(t, "put", KeyArgs, Req(t, "put"))

\* the rest of put()
PutDone(i, resp) == Settle(i, AwaitThen(i, resp, "undefined"))

PutResume(i) ==
    /\ Suspended(i, "put")
    /\ \E resp \in Responses(pending[i].req.rpc) :
         /\ PutDone(i, resp)
         /\ UNCHANGED <<kind, transactionId, closed, endReqs, engine>>

\* put() answered by the engine
PutServed(i) ==
    /\ Suspended(i, "put")
    /\ PutDone(i, Served(pending[i].req))
    /\ engine' = Applied(pending[i].req)
    /\ UNCHANGED <<kind, transactionId, closed, endReqs>>

Del(t) ==
    /\ kind[t] = "Write"
    /\ Guarded(t, "del", KeyArgs, Req(t, "del"))

\* the rest of del(): return result.ok
DelDone(i, resp) ==
    Settle(i, AwaitThen(i, resp,
        IF resp.status = "ok" /\ resp.ok THEN "true" ELSE "false"))

\* del() that marks its transaction closed when the channel fails
DelResumeGivesUp(i) ==
    /\ Suspended(i, "del")
    /\ \E resp \in Responses(pending[i].req.rpc) :
         /\ DelDone(i, resp)
         /\ closed' = IF resp.status = "fail"
                      THEN [closed EXCEPT ![pending[i].tx] = TRUE]
                      ELSE closed
         /\ UNCHANGED <<kind, transactionId, endReqs, engine>>

DelResume(i) ==
    /\ Suspended(i, "del")
    /\ \E resp \in Responses(pending[i].req.rpc) :
         /\ DelDone(i, resp)
         /\ UNCHANGED <<kind, transactionId, closed, endReqs, engine>>

\* del() answered by the engine
DelServed(i) ==
    /\ Suspended(i, "del")
    /\ DelDone(i, Served(pending[i].req))
    /\ engine' = Applied(pending[i].req)
    /\ UNCHANGED <<kind, transactionId, closed, endReqs>>

\* commit() that leaves _closed alone
CommitLeavesOpen(t) ==
    /\ kind[t] \in {"Write", "Index"}
    /\ CanCall
    /\ pending' = Append(pending,
                     Awaiting(t, "commit", NoArgs, Req(t, "commit")))
    /\ endReqs' = [endReqs EXCEPT ![t] = @ \cup {"CommitTransaction"}]
    /\ UNCHANGED <<kind, transactionId, closed, last, engine>>

\* commit() of WriteTransactionImpl and of IndexTransactionImpl
Commit(t) ==
    /\ kind[t] \in {"Write", "Index"}
    /\ CanCall
    /\ closed' = [closed EXCEPT ![t] = TRUE]
    /\ pending' = Append(pending,
                     Awaiting(t, "commit", NoArgs, Req(t, "commit")))
    /\ endReqs' = [endReqs EXCEPT ![t] = @ \cup {"CommitTransaction"}]
    /\ UNCHANGED <<kind, transactionId, last, engine>>

\* commit() that swallows a channel failure the way close() does
CommitResumeSwallows(i) ==
    /\ Suspended(i, "commit")
    /\ \E resp \in Responses(pending[i].req.rpc) :
         /\ Settle(i, Return(i, resp,
              IF resp.status = "ok" THEN resp.outcome ELSE "undefined"))
         /\ UNCHANGED <<kind, transactionId, closed, endReqs, engine>>

CommitResume(i) ==
    /\ Suspended(i, "commit")
    /\ \E resp \in Responses(pending[i].req.rpc) :
         /\ Settle(i, AwaitThen(i, resp,
              IF resp.status = "ok" THEN resp.outcome ELSE ""))
         /\ UNCHANGED <<kind, transactionId, closed, endReqs, engine>>

\* ----------------------------------------------------------------------
\* IndexTransactionImpl
\* ----------------------------------------------------------------------
\* options.keyPrefix || ''
OrEmpty(keyPrefix) == IF keyPrefix \in {Undefined, ""} THEN "" ELSE keyPrefix

\* createIndex() that sends keyPrefix as the caller gave it
CreateIndexNoDefault(t, options) ==
    /\ kind[t] = "Index"
    /\ Guarded(t, "createIndex", options,
               [rpc |-> "CreateIndex", transactionId |-> transactionId[t],
                name |-> options.name,
                keyPrefix |-> options.keyPrefix,
                jsonPointer |-> options.jsonPointer])

CreateIndex(t, options) ==
    /\ kind[t] = "Index"
    /\ Guarded(t, "createIndex", options,
               [rpc |-> "CreateIndex", transactionId |-> transactionId[t],
                name |-> options.name,
                keyPrefix |-> OrEmpty(options.keyPrefix),
                jsonPointer |-> options.jsonPointer])

\* the rest of createIndex()
CreateIndexDone(i, resp) == Settle(i, AwaitThen(i, resp, "undefined"))

CreateIndexResume(i) ==
    /\ Suspended(i, "createIndex")
    /\ \E resp \in Responses(pending[i].req.rpc) :
         /\ CreateIndexDone(i, resp)
         /\ UNCHANGED <<kind, transactionId, closed, endReqs, engine>>

\* createIndex() answered by the engine
CreateIndexServed(i) ==
    /\ Suspended(i, "createIndex")
    /\ CreateIndexDone(i, Served(pending[i].req))
    /\ engine' = Applied(pending[i].req)
    /\ UNCHANGED <<kind, transactionId, closed, endReqs>>

DropIndex(t) ==
    /\ kind[t] = "Index"
    /\ Guarded(t, "dropIndex", [name |-> "n"],
               [rpc |-> "DropIndex", transactionId |-> transactionId[t],
                name |-> "n"])

\* the rest of dropIndex()
DropIndexDone(i, resp) == Settle(i, AwaitThen(i, resp, "undefined"))

DropIndexResume(i) ==
    /\ Suspended(i, "dropIndex")
    /\ \E resp \in Responses(pending[i].req.rpc) :
         /\ DropIndexDone(i, resp)
         /\ UNCHANGED <<kind, transactionId, closed, endReqs, engine>>

\* dropIndex() answered by the engine
DropIndexServed(i) ==
    /\ Suspended(i, "dropIndex")
    /\ DropIndexDone(i, Served(pending[i].req))
    /\ engine' = Applied(pending[i].req)
    /\ UNCHANGED <<kind, transactionId, closed, endReqs>>

Next ==
    \/ \E t \in Txs, a \in OpenArgs : Open(t, a)
    \/ \E t \in Txs : Commit(t)
    \/ \E t \in Txs : Close(t)
    \/ \E t \in Txs : Get(t)
    \/ \E t \in Txs : Has(t)
    \/ \E t \in Txs : IsEmpty(t)
    \/ \E t \in Txs : Put(t)
    \/ \E t \in Txs : Del(t)
    \/ \E t \in Txs : CreateIndex(t, AgeIndex)
    \/ \E t \in Txs : DropIndex(t)
    \/ \E i \in 1..Len(pending) : OpenResume(i)
    \/ \E i \in 1..Len(pending) : PutResume(i)
    \/ \E i \in 1..Len(pending) : DelResume(i)
    \/ \E i \in 1..Len(pending) : CommitResume(i)
    \/ \E i \in 1..Len(pending) : CreateIndexResume(i)
    \/ \E i \in 1..Len(pending) : DropIndexResume(i)
    \/ \E i \in 1..Len(pending) : CloseResume(i)
    \/ \E i \in 1..Len(pending) : GetResume(i)
    \/ \E i \in 1..Len(pending) : HasResume(i)
    \/ \E i \in 1..Len(pending) : IsEmptyResume(i)

Spec == Init /\ [][Next]_vars

\* the lifecycle calls together with the scans
NextScan ==
    \/ \E t \in Txs : Open(t, "a1")
    \/ \E t \in Txs : Commit(t)
    \/ \E t \in Txs : Close(t)
    \/ \E t \in Txs : Scan(t)
    \/ \E t \in Txs : ScanAll(t)
    \/ \E t \in Txs : Iterate(t)
    \/ \E i \in 1..Len(pending) : OpenResume(i)
    \/ \E i \in 1..Len(pending) : CommitResume(i)
    \/ \E i \in 1..Len(pending) : CloseResume(i)
    \/ \E i \in 1..Len(pending) : ScanAllResume(i)
    \/ \E i \in 1..Len(pending) : IterateResume(i)

SpecScan == Init /\ [][NextScan]_vars

\* every promise the caller was given has settled
AllSettled == \A i \in 1..Len(pending) : pending[i].state # "awaiting"

\* a single caller that awaits each call before it issues the next
NextSeq ==
    \/ \E t \in Txs, a \in OpenArgs : AllSettled /\ Open(t, a)
    \/ \E t \in Txs : AllSettled /\ Commit(t)
    \/ \E t \in Txs : AllSettled /\ Close(t)
    \/ \E t \in Txs : AllSettled /\ Get(t)
    \/ \E t \in Txs : AllSettled /\ Has(t)
    \/ \E t \in Txs : AllSettled /\ IsEmpty(t)
    \/ \E t \in Txs : AllSettled /\ Scan(t)
    \/ \E t \in Txs : AllSettled /\ ScanAll(t)
    \/ \E t \in Txs : AllSettled /\ Put(t)
    \/ \E t \in Txs : AllSettled /\ Del(t)
    \/ \E t \in Txs : AllSettled /\ CreateIndex(t, AgeIndex)
    \/ \E t \in Txs : AllSettled /\ DropIndex(t)
    \/ \E i \in 1..Len(pending) : OpenResume(i)
    \/ \E i \in 1..Len(pending) : CommitResume(i)
    \/ \E i \in 1..Len(pending) : CloseResume(i)
    \/ \E i \in 1..Len(pending) : GetResume(i)
    \/ \E i \in 1..Len(pending) : HasResume(i)
    \/ \E i \in 1..Len(pending) : IsEmptyResume(i)
    \/ \E i \in 1..Len(pending) : ScanAllResume(i)
    \/ \E i \in 1..Len(pending) : PutResume(i)
    \/ \E i \in 1..Len(pending) : DelResume(i)
    \/ \E i \in 1..Len(pending) : CreateIndexResume(i)
    \/ \E i \in 1..Len(pending) : DropIndexResume(i)

SpecSeq == Init /\ [][NextSeq]_vars

\* two transaction objects on the one channel: a write transaction and a
\* transaction of any class
InitTwo ==
    /\ kind \in {k \in [{"t1", "t2"} -> Kinds] : k["t1"] = "Write"}
    /\ transactionId = [t \in DOMAIN kind |-> NoId]
    /\ closed = [t \in DOMAIN kind |-> FALSE]
    /\ pending = <<>>
    /\ last = NoCall
    /\ endReqs = [t \in DOMAIN kind |-> {}]
    /\ engine = NoData

\* no call on t is suspended: the caller of t has awaited them all
Free(t) == \A i \in 1..Len(pending) : pending[i].tx # t

\* one caller per transaction, each awaiting its calls, the two interleaved
\* in any order: the lifecycle calls and one read and one write
NextTwo ==
    \/ \E t \in Txs : Free(t) /\ Open(t, "a1")
    \/ \E t \in Txs : Free(t) /\ Commit(t)
    \/ \E t \in Txs : Free(t) /\ Close(t)
    \/ \E t \in Txs : Free(t) /\ Has(t)
    \/ \E t \in Txs : Free(t) /\ Put(t)
    \/ \E i \in 1..Len(pending) : OpenResume(i)
    \/ \E i \in 1..Len(pending) : CommitResume(i)
    \/ \E i \in 1..Len(pending) : CloseResume(i)
    \/ \E i \in 1..Len(pending) : HasResume(i)
    \/ \E i \in 1..Len(pending) : PutResume(i)

SpecTwo == InitTwo /\ [][NextTwo]_vars

\* one transaction object in front of an engine that may already store a key
InitEngine ==
    /\ kind \in [{"t1"} -> Kinds]
    /\ transactionId = [t \in DOMAIN kind |-> NoId]
    /\ closed = [t \in DOMAIN kind |-> FALSE]
    /\ pending = <<>>
    /\ last = NoCall
    /\ endReqs = [t \in DOMAIN kind |-> {}]
    /\ engine \in [keys : SUBSET {"k"}, indexes : {{}}]

\* the calls whose answer depends on what the engine stores, answered by it
NextEngine ==
    \/ \E t \in Txs : Open(t, "a1")
    \/ \E t \in Txs : Close(t)
    \/ \E t \in Txs : IsEmpty(t)
    \/ \E t \in Txs : Put(t)
    \/ \E t \in Txs : Del(t)
    \/ \E t \in Txs, o \in CreateIndexDefinitions : CreateIndex(t, o)
    \/ \E t \in Txs : DropIndex(t)
    \/ \E i \in 1..Len(pending) : OpenResume(i)
    \/ \E i \in 1..Len(pending) : CloseResume(i)
    \/ \E i \in 1..Len(pending) : IsEmptyServed(i)
    \/ \E i \in 1..Len(pending) : PutServed(i)
    \/ \E i \in 1..Len(pending) : DelServed(i)
    \/ \E i \in 1..Len(pending) : CreateIndexServed(i)
    \/ \E i \in 1..Len(pending) : DropIndexServed(i)

SpecEngine == InitEngine /\ [][NextEngine]_vars

\* ----------------------------------------------------------------------
\* Properties
\* ----------------------------------------------------------------------
\* every call the model knows of: the suspended ones and the last settled
Calls == {pending[i] : i \in 1..Len(pending)} \cup {last}

\* the guarded calls of t that have a request with the channel
GuardedInFlight(t) ==
    {i \in 1..Len(pending) :
        pending[i].tx = t /\ pending[i].op \in GuardedOps}

\* C1: a get, has, isEmpty, put, del, createIndex or dropIndex invoked after
\* close() or commit() was invoked on the transaction fails with
\* TransactionClosed and has sent no request
C1_GuardedAfterEndFails ==
    \A c \in Calls :
        (c.op \in GuardedOps /\ c.afterEnd) =>
            /\ c.state = "threw"
            /\ c.result = "TransactionClosed"
            /\ c.req = NoReq

\* an opened transaction was closed or committed and a guarded call on it
\* was then rejected
C1_Witness ==
    /\ last.op \in GuardedOps
    /\ last.afterEnd
    /\ last.state = "threw"
    /\ transactionId[last.tx] # NoId

\* C2: closed is already true in the state in which the channel has the
\* CloseTransaction or CommitTransaction request, and from then on no step
\* hands a new request of a guarded operation of that transaction to the
\* channel, whether the end request is pending, succeeded or failed
C2_ClosedBeforeSend ==
    [][\A t \in Txs :
          /\ Ended(t)' => closed'[t]
          /\ Ended(t) =>
               Cardinality(GuardedInFlight(t)') <=
                   Cardinality(GuardedInFlight(t))]_vars

\* a guarded call was rejected while the close request of its transaction
\* was still with the channel
C2_Witness ==
    /\ last.op \in GuardedOps
    /\ last.state = "threw"
    /\ \E i \in 1..Len(pending) :
          pending[i].tx = last.tx /\ pending[i].op = "close"

\* C3: close() never raises: it returns normally whatever the channel
\* answered, and closed is true from the moment it was invoked
C3_CloseNeverRaises ==
    \A c \in Calls :
        c.op = "close" =>
            /\ c.state # "threw"
            /\ closed[c.tx]
            /\ c.resp.status = "fail" => c.state = "returned"

\* a close() whose CloseTransaction request the channel failed has settled
C3_Witness ==
    /\ last.op = "close"
    /\ last.resp.status = "fail"

\* C4: commit() returns the channel's commit outcome when the request
\* succeeds and throws the channel's failure when it fails, and closed is
\* true from the moment commit() was invoked
C4_CommitPropagates ==
    \A c \in Calls :
        c.op = "commit" =>
            /\ kind[c.tx] \in {"Write", "Index"}
            /\ closed[c.tx]
            /\ c.resp.status = "ok" =>
                 (c.state = "returned" /\ c.result = c.resp.outcome)
            /\ c.resp.status = "fail" =>
                 (c.state = "threw" /\ c.result = c.resp.error)

\* a commit() whose CommitTransaction request the channel failed has settled
C4_Witness ==
    /\ last.op = "commit"
    /\ last.resp.status = "fail"
    /\ last.state = "threw"

\* C5: once closed is true no step makes it false again
C5_ClosedMonotonic ==
    [][\A t \in Txs : closed[t] => closed'[t]]_vars

\* an open() invoked after close() has completed successfully
C5_Witness ==
    /\ last.op = "open"
    /\ last.afterEnd
    /\ last.state = "returned"
    /\ closed[last.tx]

\* C6: once the id was set from an open response it never changes
C6_IdAssignedOnce ==
    [][\A t \in Txs :
          transactionId[t] # NoId => transactionId'[t] = transactionId[t]]_vars

\* C7: no get, has, isEmpty, put, del, createIndex, dropIndex or commit
\* sends a request while the id is unset
C7_NoRequestWhileIdUnset ==
    \A i \in 1..Len(pending) :
        pending[i].op \in GuardedOps \cup {"commit"} =>
            pending[i].req.transactionId # NoId

\* C8: a commit() or open() invoked after close() or commit() was invoked
\* sends no request
C8_OnlyCloseAfterClosed ==
    \A i \in 1..Len(pending) :
        pending[i].op \in {"commit", "open"} => ~pending[i].afterEnd

\* C9: the channel never receives both a CommitTransaction and a
\* CloseTransaction request of one transaction
C9_CommitXorClose ==
    \A t \in Txs : ~(EndRpcs \subseteq endReqs[t])

\* C9 as amended: a transaction is closed exactly when the channel has
\* received a CommitTransaction or a CloseTransaction request of it
C9_ClosedIffEnded ==
    \A t \in Txs : closed[t] <=> endReqs[t] # {}

\* a write or index transaction ended through commit()
C9_Witness ==
    /\ last.op = "commit"
    /\ last.state = "returned"
    /\ endReqs[last.tx] = {"CommitTransaction"}
    /\ closed[last.tx]

\* C10: a guarded call whose request was with the channel when close() was
\* invoked settles with what the channel answered: its failure when the
\* request fails, its result when it succeeds, never TransactionClosed
C10_InFlightSurvivesClose ==
    (last.op \in GuardedOps /\ last.closeDuring) =>
        /\ last.result # "TransactionClosed"
        /\ last.resp.status = "fail" =>
             (last.state = "threw" /\ last.result = last.resp.error)
        /\ last.resp.status = "ok" =>
             \/ last.state = "returned"
             \/ last.op = "get" /\ last.result = "DecodeFailure"
        /\ (last.resp.status = "ok" /\ last.op \in {"has", "get"}) =>
             \/ ~last.resp.has /\ last.result \in {"false", "undefined"}
             \/ last.resp.has /\ last.result \in {"true", "a", "DecodeFailure"}

\* a get whose request was with the channel when close() was invoked has
\* returned the value the channel answered
C10_Witness ==
    /\ last.op = "get"
    /\ last.closeDuring
    /\ last.state = "returned"
    /\ last.result = "a"
    /\ closed[last.tx]

\* the call a step has just suspended at its await
Newest == pending[Len(pending)]

\* C11: every request other than the open request carries an id the engine
\* returned for an open of the transaction it was invoked on, and the open
\* request carries the caller's arguments and no id
C11_CarriesEngineId ==
    \A i \in 1..Len(pending) :
        IF pending[i].req.rpc \in OpenRpcs
        THEN /\ DOMAIN pending[i].req = {"rpc", "args"}
             /\ pending[i].req.args = pending[i].args.open
        ELSE pending[i].req.transactionId \in EngineIds

\* C11 as amended: a request other than the open request carries the value
\* the id field of its transaction has when the request is sent, which is
\* an id the engine returned or the initial -1, and the open request carries
\* the caller's arguments and no id
C11_CarriesCurrentId ==
    [][Len(pending') = Len(pending) + 1 =>
          IF Newest'.req.rpc \in OpenRpcs
          THEN /\ DOMAIN Newest'.req = {"rpc", "args"}
               /\ Newest'.req.args = Newest'.args.open
          ELSE /\ Newest'.req.transactionId = transactionId[Newest'.tx]
               /\ transactionId[Newest'.tx] \in EngineIds \cup {NoId}]_vars

\* a request of an opened transaction is with the channel and carries the
\* id the engine returned
C11_Witness ==
    /\ last.op = "open"
    /\ last.state = "returned"
    /\ \E i \in 1..Len(pending) :
          /\ pending[i].req.rpc \notin OpenRpcs
          /\ pending[i].req.transactionId = last.resp.transactionId
          /\ pending[i].req.transactionId = transactionId[pending[i].tx]

\* a call of the operations ops settles in this step
Settles(ops) ==
    /\ last'.op \in ops
    /\ last' # last \/ Len(pending') < Len(pending)

\* C12: an iteration of a scan view (scanAll or a caller's own loop) that
\* settles when its transaction is closed, whether it was closed before the
\* iteration started or while it ran, fails with TransactionClosed, and no
\* step sends a Scan request of an iteration whose transaction is closed
C12_IterationFailsWhenClosed ==
    [][/\ (Settles(IterOps) /\ closed[last'.tx]) =>
             (last'.state = "threw" /\ last'.result = "TransactionClosed")
       /\ \A i \in 1..Len(pending') :
             (pending'[i].op \in IterOps /\ closed[pending'[i].tx]) =>
                 \E j \in 1..Len(pending) :
                     /\ pending[j].tx = pending'[i].tx
                     /\ pending[j].op = pending'[i].op
                     /\ pending[j].sent = pending'[i].sent]_vars

\* a scanAll() whose transaction was closed while its Scan request was with
\* the channel has failed with TransactionClosed
C12_Witness ==
    /\ last.op = "scanAll"
    /\ last.sent = 1
    /\ ~last.afterEnd
    /\ last.state = "threw"
    /\ last.result = "TransactionClosed"
    /\ transactionId[last.tx] # NoId

\* C13: scan() returns a ScanResult in every state of the transaction and
\* the step changes neither the requests with the channel nor id nor
\* closed; a Scan request is only ever sent by an iteration of a view (or
\* by isEmpty, which sends its own)
C13_ScanNoIO ==
    [][/\ Settles({"scan"}) =>
             /\ last'.state = "returned"
             /\ last'.req = NoReq
             /\ UNCHANGED <<pending, transactionId, closed, endReqs>>
       /\ \A i \in 1..Len(pending') :
             pending'[i].req.rpc = "Scan" =>
                 pending'[i].op \in IterOps \cup {"isEmpty"}]_vars

\* scan() was called on a closed transaction and returned a ScanResult
C13_Witness ==
    /\ last.op = "scan"
    /\ last.result = "ScanResult"
    /\ closed[last.tx]
    /\ pending = <<>>

\* C14: isEmpty() sends one Scan request with limit 1 over the primary key
\* space and, when that request succeeds, returns true exactly when the
\* receiver was given no entry, which is exactly when the engine stores no
\* key (so it returns false once a key was put)
C14_IsEmptyIffNothingDelivered ==
    [][(Settles({"isEmpty"}) /\ last'.state = "returned") =>
          /\ last'.req.rpc = "Scan"
          /\ last'.req.opts = [limit |-> 1, indexName |-> ""]
          /\ last'.result = "true" <=> last'.resp.delivered = 0
          /\ last'.result = "false" <=> last'.resp.delivered >= 1
          /\ last'.resp.delivered = 0 <=> engine.keys = {}]_vars

\* isEmpty() on an open write transaction returned false while the engine
\* stores a key
C14_Witness ==
    /\ last.op = "isEmpty"
    /\ last.state = "returned"
    /\ last.result = "false"
    /\ kind[last.tx] = "Write"
    /\ last.req.transactionId # NoId
    /\ ~closed[last.tx]
    /\ engine.keys = {"k"}

\* C16: when a createIndex() that reached the engine settles right after a
\* successful createIndex() of the same name, it succeeds if jsonPointer and
\* keyPrefix (left out counting as "") are the same, and it fails with the
\* engine's DefinitionConflict if jsonPointer differs
C16_CreateIndexIdempotent ==
    [][(/\ Settles({"createIndex"})
        /\ last'.sent = 1
        /\ last.op = "createIndex"
        /\ last.state = "returned"
        /\ last.args.name = last'.args.name) =>
          /\ (/\ last.args.jsonPointer = last'.args.jsonPointer
              /\ OrEmpty(last.args.keyPrefix) = OrEmpty(last'.args.keyPrefix)) =>
                 last'.state = "returned"
          /\ last.args.jsonPointer # last'.args.jsonPointer =>
                 (last'.state = "threw" /\ last'.result = "DefinitionConflict")
          /\ last'.req.keyPrefix = OrEmpty(last'.args.keyPrefix)]_vars

\* a createIndex() with another jsonPointer than the existing index of that
\* name has failed with DefinitionConflict
C16_Witness ==
    /\ last.op = "createIndex"
    /\ last.state = "threw"
    /\ last.result = "DefinitionConflict"
    /\ \E d \in engine.indexes :
          d.name = last.args.name /\ d.jsonPointer # last.args.jsonPointer

\* C15: with a caller that awaits each call before the next, a request is
\* handed to the channel only in the step in which its operation is issued
\* (or, for a later page of a scan, by the only call in flight), only when no
\* other request of the transaction is in flight, so requests reach the
\* channel in the order of issue and at most one is in flight
C15_SequentialOneInFlight ==
    [][/\ Len(pending') <= 1
       /\ Len(pending') = Len(pending) + 1 =>
             /\ pending = <<>>
             /\ Newest'.state = "awaiting"
             /\ Newest'.sent = 1
             /\ Newest'.req.rpc =
                   IF Newest'.op = "open"
                   THEN openTransactionName(kind[Newest'.tx])
                   ELSE IF Newest'.op \in IterOps
                   THEN "Scan"
                   ELSE RpcOf(Newest'.op)
       /\ (Len(pending') = Len(pending) /\ pending' # pending) =>
             /\ Len(pending) = 1
             /\ pending'[1] = [pending[1] EXCEPT !.sent = @ + 1]]_vars

\* a put is in flight on a transaction whose open has been awaited
C15_Witness ==
    /\ Len(pending) = 1
    /\ pending[1].op = "put"
    /\ pending[1].req.transactionId \in EngineIds
    /\ last.op = "open"
    /\ last.state = "returned"

\* C17: open(args) sends one request that carries exactly the caller's args
\* under the tag OpenIndexTransaction for an index transaction and
\* OpenTransaction for the other kinds, and leaves the id alone until the
\* answer; on success the answer's transactionId becomes the id, on a
\* channel failure open fails with that failure and the id is what it was
\* (unset if it was unset)
C17_OpenStoresId ==
    [][/\ (Len(pending') = Len(pending) + 1 /\ Newest'.op = "open") =>
             /\ Newest'.sent = 1
             /\ Newest'.req =
                  [rpc |-> IF kind[Newest'.tx] = "Index"
                           THEN "OpenIndexTransaction"
                           ELSE "OpenTransaction",
                   args |-> Newest'.args.open]
             /\ transactionId' = transactionId
       /\ Settles({"open"}) =>
             /\ last'.sent = 1
             /\ IF last'.resp.status = "ok"
                THEN /\ last'.state = "returned"
                     /\ transactionId' =
                          [transactionId EXCEPT
                             ![last'.tx] = last'.resp.transactionId]
                ELSE /\ last'.state = "threw"
                     /\ last'.result = last'.resp.error
                     /\ transactionId' = transactionId]_vars

\* open("a2") of an index transaction succeeded and its id is the one the
\* engine returned
C17_Witness ==
    /\ last.op = "open"
    /\ last.state = "returned"
    /\ kind[last.tx] = "Index"
    /\ last.req = [rpc |-> "OpenIndexTransaction", args |-> "a2"]
    /\ transactionId[last.tx] = last.resp.transactionId

\* the operations of C18
SingleRequestOps ==
    {"open", "get", "has", "isEmpty", "put", "del", "createIndex",
     "dropIndex", "commit", "close"}

\* C18: a call of open, get, has, isEmpty, put, del, createIndex, dropIndex,
\* commit or close never sends a second request, and when its request fails
\* the call settles in that step, throwing the channel's failure unless it
\* is close
C18_NoRetry ==
    [][/\ \A i \in 1..Len(pending') :
             pending'[i].op \in SingleRequestOps => pending'[i].sent = 1
       /\ (last'.op \in SingleRequestOps /\ last' # last) => last'.sent <= 1
       /\ \A i \in 1..Len(pending) :
             (/\ pending[i].op \in SingleRequestOps
              /\ pending' = Remove(pending, i)
              /\ last'.resp.status = "fail") =>
                /\ last'.op = pending[i].op
                /\ last'.req = pending[i].req
                /\ last'.sent = 1
                /\ last'.op # "close" =>
                     (last'.state = "threw"
                        /\ last'.result = last'.resp.error)
       /\ Len(pending') >= Len(pending) =>
             \A i \in 1..Len(pending) :
                pending[i].op \in SingleRequestOps =>
                   pending'[i].sent = pending[i].sent]_vars

\* a put whose only request failed has thrown the channel's failure
C18_Witness ==
    /\ last.op = "put"
    /\ last.sent = 1
    /\ last.resp.status = "fail"
    /\ last.state = "threw"
    /\ last.result = last.resp.error

\* the transaction whose method runs in a step: the one of the call that
\* was added to the suspended calls, else the one of the call that settled
Actor == IF Len(pending) > 0 THEN Newest.tx ELSE ""

\* C19: a step of a call on one transaction (an open, close, commit, or any
\* call that succeeds or fails) leaves id and closed flag of every other
\* transaction as they were, and a call fails with TransactionClosed only
\* on a transaction that is itself closed, whatever happened to the others
C19_Independent ==
    [][/\ \A t \in Txs :
             (t # (IF Len(pending') = Len(pending) + 1
                   THEN Actor' ELSE last'.tx)) =>
                /\ transactionId'[t] = transactionId[t]
                /\ closed'[t] = closed[t]
       /\ (last' # last /\ last'.result = "TransactionClosed") =>
             closed[last'.tx]]_vars

\* requests of both transactions are with the channel, t1 is closed, and a
\* has() on the open t2 has returned after that
C19_Witness ==
    /\ closed["t1"]
    /\ ~closed["t2"]
    /\ transactionId["t2"] \in EngineIds
    /\ last.tx = "t2" /\ last.op = "has" /\ last.state = "returned"
    /\ last.req.transactionId = transactionId["t2"]
    /\ \E i, j \in 1..Len(pending) :
          pending[i].tx = "t1" /\ pending[j].tx = "t2"

\* C20: the step in which a get, has, isEmpty, put, del, createIndex or
\* dropIndex is called, and the step in which it settles (returning, failing
\* with TransactionClosed or failing with the channel's failure), leave id
\* and closed flag as they were
C20_GuardedOpsKeepLifecycle ==
    [][(\/ Len(pending') = Len(pending) + 1 /\ Newest'.op \in GuardedOps
        \/ Settles(GuardedOps)) =>
          /\ transactionId' = transactionId
          /\ closed' = closed]_vars

\* a del on an opened transaction failed with the channel's failure and the
\* transaction still has its id and is not closed
C20_Witness ==
    /\ last.op = "del"
    /\ last.state = "threw"
    /\ last.resp.status = "fail"
    /\ last.req.transactionId \in EngineIds
    /\ transactionId[last.tx] = last.req.transactionId
    /\ ~closed[last.tx]

====
